---- MODULE Spec2Model ----
(***************************************************************************)
(* A model of the JAC Splice-Orchestrator plugin                           *)
(* (jac_splice_orc/plugin/splice_plugin.py): plugin activation             *)
(* (SpliceOrcPlugin.__init__: namespace, service account, role, role       *)
(* binding, manifest apply, endpoint resolution and persistence in .env)   *)
(* and the jac_import hook.  The cluster control plane, the .env file and  *)
(* the process environment are the state; every control-plane call is one  *)
(* step, answered truthfully or with an injected failure.                  *)
(***************************************************************************)
EXTENDS Integers, Sequences, FiniteSets, TLC

(***************************************************************************)
(* Bounds of the model.                                                    *)
(***************************************************************************)
\* longest ingress list a service reports
MaxIngress == 2
\* most lines of an initial .env file in SpecStore
MaxLines == 2
\* threads of a process that call jac_import at the same time
MaxThreads == 2

(***************************************************************************)
(* Program constants.                                                      *)
(***************************************************************************)
NotFound == 404
Conflict == 409
Namespace == "jac-splice-orc"
ServiceAccountName == "smartimportsa"
RoleName == "smartimport-role"
RoleBindingName == "smartimport-rolebinding"
ServiceName == "pod-manager-service"
UrlKey == <<"POD_MANAGER_URL">>
\* the deployment object of pod_manager_deployment.yml
DeploymentName == "pod-manager-deployment"

\* Python's None where a string is expected (ip, hostname, url, lng)
NONE == "<None>"
\* statuses of control-plane failures other than 404 and 409
FaultStatuses == {403, 500}

\* Optional values: <<>> is None, <<v>> is the value v
None == <<>>
Some(v) == <<v>>

(***************************************************************************)
(* Cluster objects.                                                        *)
(***************************************************************************)
AllVerbs == <<"get", "watch", "list", "create", "update", "delete">>

DeclaredRules ==
    << [api_groups |-> <<"">>,
        resources  |-> <<"pods", "services", "configmaps">>,
        verbs      |-> AllVerbs],
       [api_groups |-> <<"apps">>,
        resources  |-> <<"deployments">>,
        verbs      |-> AllVerbs] >>

\* a role somebody else created under the same name, with fewer rights
DivergentRules ==
    << [api_groups |-> <<"">>, resources |-> <<"pods">>, verbs |-> <<"get">>] >>

Obj(kind, ns, name, rules) ==
    [kind |-> kind, namespace |-> ns, name |-> name, rules |-> rules]

NamespaceObj(name) == Obj("Namespace", "", name, <<>>)
ServiceAccountObj(ns) == Obj("ServiceAccount", ns, ServiceAccountName, <<>>)
RoleObj(ns) == Obj("Role", ns, RoleName, DeclaredRules)
RoleBindingObj(ns) == Obj("RoleBinding", ns, RoleBindingName, <<>>)

\* the objects of the bundled manifest, in file order
Manifest(ns) ==
    << Obj("Deployment", ns, DeploymentName, <<>>),
       Obj("Service", ns, ServiceName, <<>>) >>

Exists(c, kind, ns, name) ==
    \E o \in c : o.kind = kind /\ o.namespace = ns /\ o.name = name

\* the kinds the bootstrap owns
BootKinds == {"Namespace", "ServiceAccount", "Role", "RoleBinding"}
BootObjects(c) == {o \in c : o.kind \in BootKinds}

(***************************************************************************)
(* The .env file: lines of tokens.  A token stands for one character       *)
(* ("=", the double quote, a blank) or for a run of characters that holds  *)
(* none of these.                                                          *)
(***************************************************************************)
Quote == "\""
Whitespace == {" ", "\t", "\n"}

RECURSIVE LStrip(_, _)
LStrip(s, chars) ==
    IF s = <<>> THEN s
    ELSE IF Head(s) \in chars THEN LStrip(Tail(s), chars) ELSE s

RECURSIVE RStrip(_, _)
RStrip(s, chars) ==
    IF s = <<>> THEN s
    ELSE IF s[Len(s)] \in chars THEN RStrip(SubSeq(s, 1, Len(s) - 1), chars) ELSE s

\* str.strip(chars)
PyStrip(s, chars) == RStrip(LStrip(s, chars), chars)

\* index of the first "=" of a line, 0 when it has none
FirstEq(s) ==
    IF \E i \in 1..Len(s) : s[i] = "="
    THEN CHOOSE i \in 1..Len(s) : s[i] = "=" /\ \A j \in 1..(i - 1) : s[j] # "="
    ELSE 0

\* env_vars[key] = value on an insertion-ordered dict of <<key, value>> pairs
DictSet(d, k, v) ==
    IF \E i \in 1..Len(d) : d[i][1] = k
    THEN [i \in 1..Len(d) |-> IF d[i][1] = k THEN <<k, v>> ELSE d[i]]
    ELSE Append(d, <<k, v>>)

DictHas(d, k) == \E i \in 1..Len(d) : d[i][1] = k
DictGet(d, k) == d[CHOOSE i \in 1..Len(d) : d[i][1] = k][2]
DictKeys(d) == {d[i][1] : i \in 1..Len(d)}

\* the read loop of configure_pod_manager_url: ok is FALSE when a line that
\* is not blank has no "=" (the unpacking of split("=", 1) raises ValueError)
RECURSIVE ParseEnv(_, _)
ParseEnv(lines, acc) ==
    IF lines = <<>> THEN [ok |-> TRUE, vars |-> acc]
    ELSE LET line == PyStrip(Head(lines), Whitespace)
             eq == FirstEq(line)
         IN IF line = <<>> THEN ParseEnv(Tail(lines), acc)
            ELSE IF eq = 0 THEN [ok |-> FALSE, vars |-> acc]
            ELSE ParseEnv(Tail(lines),
                          DictSet(acc,
                                  SubSeq(line, 1, eq - 1),
                                  PyStrip(SubSeq(line, eq + 1, Len(line)), {Quote})))

\* the write loop: key="value" per entry
FormatLine(kv) == kv[1] \o <<"=", Quote>> \o kv[2] \o <<Quote>>
FormatEnv(d) == [i \in 1..Len(d) |-> FormatLine(d[i])]

\* the port left out
PodManagerUrl_NoPort(url) == <<"http://", url>>

\* f"http://{url}:8000"
PodManagerUrl(url) == <<"http://", url, ":8000">>

(***************************************************************************)
(* The control plane, as the plugin's calls see it.  Status 200 stands for *)
(* a call that returned normally.                                          *)
(***************************************************************************)
\* what read_namespaced_* answers when nothing goes wrong
ReadStatus(c, kind, ns, name) ==
    IF Exists(c, kind, ns, name) THEN 200 ELSE NotFound

\* what create_* answers when nothing goes wrong
CreateStatus(c, o) ==
    IF Exists(c, o.kind, o.namespace, o.name) THEN Conflict
    ELSE IF o.kind # "Namespace" /\ ~Exists(c, "Namespace", "", o.namespace)
    THEN NotFound
    ELSE 200

\* names of list_namespace().items
NamespaceNames(c) == {o.name : o \in {x \in c : x.kind = "Namespace"}}

\* Python truthiness of an optional string
Truthy(s) == s # NONE /\ s # ""

IngressEntries == [ip : {NONE, "10.0.0.1"}, hostname : {NONE, "lb.example.com"}]
OtherEntry == [ip |-> "10.0.0.2", hostname |-> NONE]

\* the ingress lists a service may report: any first entry, then other entries
IngressValues ==
    {<<>>} \cup
    {<<e>> \o [i \in 1..k |-> OtherEntry] : e \in IngressEntries, k \in 0..(MaxIngress - 1)}

VARIABLES
    procs,        \* the processes that load the plugin
    faults,       \* the failure statuses the control plane may answer with
    cluster,      \* the objects of the cluster
    ingress,      \* status.load_balancer.ingress of the manager service
    envFile,      \* the .env file of the working directory
    pc,           \* per process: where it is
    err,          \* per process: the exception that ended its activation
    log,          \* per process: the control-plane calls of its activation
    url,          \* per process: what get_loadbalancer_url returned
    env_vars,     \* per process: the local dict of configure_pod_manager_url
    sawIngress,   \* per process: the ingress list get_loadbalancer_url read
    startFile,    \* per process: the .env file when its activation began
    environ,      \* per process: os.environ's POD_MANAGER_URL
    jac_program,  \* per process: whether the machine has a program attached
    lastImport,   \* the last jac_import call and what it did
    bootOut,      \* bootstrap objects after the latest bootstrap, if it finished
    prevBootOut,  \* the same for the activation before
    written,      \* per process: the lines handed to env_file.write so far
    thr,          \* per thread of a process: its jac_import call and where it is
    attached      \* per process: the threads whose JacProgram was attached, in order

vars == <<procs, faults, cluster, ingress, envFile, pc, err, log, url, env_vars,
          sawIngress, startFile, environ, jac_program, lastImport,
          bootOut, prevBootOut, written, thr, attached>>

\* the answers a call may get: the true one, or a failure of the control plane
Answers(truth) == {truth} \cup faults

NoErr == [type |-> "none", status |-> 0, at |-> "none"]
NoFile == [exists |-> FALSE, lines |-> <<>>]
File(lines) == [exists |-> TRUE, lines |-> lines]

\* one call: what was asked, of which object, and the answer; fault says the
\* answer was not the true one
Call(op, kind, ns, name, status, truth) ==
    [op |-> op, kind |-> kind, namespace |-> ns, name |-> name, status |-> status,
     fault |-> status # truth]

\* the exception leaves __init__: the activation is over
Raise(p, type, status) ==
    /\ pc' = [pc EXCEPT ![p] = "failed"]
    /\ err' = [err EXCEPT ![p] = [type |-> type, status |-> status, at |-> pc[p]]]

Goto(p, where) ==
    /\ pc' = [pc EXCEPT ![p] = where]
    /\ UNCHANGED err

Logged(p, call) == log' = [log EXCEPT ![p] = Append(@, call)]

\* config.load_kube_config() and config.load_incluster_config() both raise
ConfigFails(p) ==
    /\ faults # {}
    /\ Raise(p, "ConfigException", 0)
    /\ Logged(p, Call("config", "", "", pc[p], 0, 200))

(***************************************************************************)
(* SpliceOrcPlugin.__init__                                                *)
(***************************************************************************)
Start(p) ==
    /\ pc[p] \in {"loaded", "ready", "failed"}
    /\ pc' = [pc EXCEPT ![p] = "list_ns"]
    /\ err' = [err EXCEPT ![p] = NoErr]
    /\ log' = [log EXCEPT ![p] = <<>>]
    /\ url' = [url EXCEPT ![p] = NONE]
    /\ env_vars' = [env_vars EXCEPT ![p] = <<>>]
    /\ sawIngress' = [sawIngress EXCEPT ![p] = None]
    /\ startFile' = [startFile EXCEPT ![p] = envFile]
    /\ prevBootOut' = bootOut
    /\ bootOut' = None
    /\ UNCHANGED <<procs, faults, cluster, ingress, envFile, environ, jac_program,
                   lastImport, written, thr, attached>>

(***************************************************************************)
(* create_namespace                                                        *)
(***************************************************************************)
\* the existence check forgotten: the namespace is created on every run
NamespacePresent_NoCheck(names, namespace_name) == FALSE

\* any(ns.metadata.name == namespace_name for ns in namespaces.items)
NamespacePresent(names, namespace_name) == namespace_name \in names

ListNs(p) ==
    /\ pc[p] = "list_ns"
    /\ \/ ConfigFails(p)
       \/ \E st \in Answers(200) :
            /\ Logged(p, Call("list", "Namespace", "", "", st, 200))
            /\ IF st # 200 THEN Raise(p, "ApiException", st)
               ELSE IF NamespacePresent(NamespaceNames(cluster), Namespace)
               THEN Goto(p, "read_sa")
               ELSE Goto(p, "create_ns")
    /\ UNCHANGED <<procs, faults, cluster, ingress, envFile, url, env_vars, sawIngress,
                   startFile, environ, jac_program, lastImport, bootOut, prevBootOut,
                   written, thr, attached>>

\* the failure of a create logged and ignored: the activation goes on
CreateCall_GoesOn(p, o, next) ==
    \E st \in Answers(CreateStatus(cluster, o)) :
        /\ Logged(p, Call("create", o.kind, o.namespace, o.name, st, CreateStatus(cluster, o)))
        /\ cluster' = IF st = 200 THEN cluster \cup {o} ELSE cluster
        /\ Goto(p, next)

\* one create call of the bootstrap: the object appears, or the call raises
CreateCall(p, o, next) ==
    \E st \in Answers(CreateStatus(cluster, o)) :
        /\ Logged(p, Call("create", o.kind, o.namespace, o.name, st, CreateStatus(cluster, o)))
        /\ IF st = 200
           THEN cluster' = cluster \cup {o} /\ Goto(p, next)
           ELSE UNCHANGED cluster /\ Raise(p, "ApiException", st)

CreateNs(p) ==
    /\ pc[p] = "create_ns"
    /\ CreateCall(p, NamespaceObj(Namespace), "read_sa")
    /\ UNCHANGED <<procs, faults, ingress, envFile, url, env_vars, sawIngress,
                   startFile, environ, jac_program, lastImport, bootOut, prevBootOut,
                   written, thr, attached>>

(***************************************************************************)
(* create_service_account and create_role_and_binding: read, and create on *)
(* 404                                                                     *)
(***************************************************************************)
\* create after any failed read
SaMissing_AnyError(status) == TRUE

\* the except branch of a read: create on 404, re-raise otherwise
SaMissing(status) == status = NotFound
RoleMissing(status) == status = NotFound
RoleBindingMissing(status) == status = NotFound

ReadSa(p) ==
    /\ pc[p] = "read_sa"
    /\ \E st \in Answers(ReadStatus(cluster, "ServiceAccount", Namespace, ServiceAccountName)) :
        /\ Logged(p, Call("read", "ServiceAccount", Namespace, ServiceAccountName, st,
                          ReadStatus(cluster, "ServiceAccount", Namespace, ServiceAccountName)))
        /\ IF st = 200 THEN Goto(p, "read_role")
           ELSE IF SaMissing(st) THEN Goto(p, "create_sa")
           ELSE Raise(p, "ApiException", st)
    /\ UNCHANGED <<procs, faults, cluster, ingress, envFile, url, env_vars, sawIngress,
                   startFile, environ, jac_program, lastImport, bootOut, prevBootOut,
                   written, thr, attached>>

CreateSa(p) ==
    /\ pc[p] = "create_sa"
    /\ CreateCall(p, ServiceAccountObj(Namespace), "read_role")
    /\ UNCHANGED <<procs, faults, ingress, envFile, url, env_vars, sawIngress,
                   startFile, environ, jac_program, lastImport, bootOut, prevBootOut,
                   written, thr, attached>>

\* a role found with other rules is replaced by the declared one
ReadRole_Reconciles(p) ==
    /\ pc[p] = "read_role"
    /\ \E st \in Answers(ReadStatus(cluster, "Role", Namespace, RoleName)) :
        /\ Logged(p, Call("read", "Role", Namespace, RoleName, st,
                          ReadStatus(cluster, "Role", Namespace, RoleName)))
        /\ IF st = 200 THEN Goto(p, "read_rb")
           ELSE IF RoleMissing(st) THEN Goto(p, "create_role")
           ELSE Raise(p, "ApiException", st)
        /\ cluster' = IF st = 200
                      THEN {o \in cluster : o.kind # "Role"} \cup {RoleObj(Namespace)}
                      ELSE cluster
    /\ UNCHANGED <<procs, faults, ingress, envFile, url, env_vars, sawIngress,
                   startFile, environ, jac_program, lastImport, bootOut, prevBootOut,
                   written, thr, attached>>

ReadRole(p) ==
    /\ pc[p] = "read_role"
    /\ \E st \in Answers(ReadStatus(cluster, "Role", Namespace, RoleName)) :
        /\ Logged(p, Call("read", "Role", Namespace, RoleName, st,
                          ReadStatus(cluster, "Role", Namespace, RoleName)))
        /\ IF st = 200 THEN Goto(p, "read_rb")
           ELSE IF RoleMissing(st) THEN Goto(p, "create_role")
           ELSE Raise(p, "ApiException", st)
    /\ UNCHANGED <<procs, faults, cluster, ingress, envFile, url, env_vars, sawIngress,
                   startFile, environ, jac_program, lastImport, bootOut, prevBootOut,
                   written, thr, attached>>

CreateRole(p) ==
    /\ pc[p] = "create_role"
    /\ CreateCall(p, RoleObj(Namespace), "read_rb")
    /\ UNCHANGED <<procs, faults, ingress, envFile, url, env_vars, sawIngress,
                   startFile, environ, jac_program, lastImport, bootOut, prevBootOut,
                   written, thr, attached>>

\* the ClusterIdentity a log's bootstrap calls named
NamesOf(l, kind) ==
    {l[i].name : i \in {j \in 1..Len(l) : l[j].op \in {"read", "create"} /\ l[j].kind = kind}}

Ident(l) ==
    [namespace |->
        NamesOf(l, "Namespace") \cup
        {l[i].namespace : i \in {j \in 1..Len(l) :
            l[j].op \in {"read", "create"}
            /\ l[j].kind \in {"ServiceAccount", "Role", "RoleBinding"}}},
     service_account |-> NamesOf(l, "ServiceAccount"),
     role |-> NamesOf(l, "Role"),
     role_binding |-> NamesOf(l, "RoleBinding")]

\* the bootstrap is over: __init__ goes on to apply_pod_manager_yaml
BootDone(c, l) == Some([objects |-> BootObjects(c), ident |-> Ident(l)])

ReadRb(p) ==
    /\ pc[p] = "read_rb"
    /\ \E st \in Answers(ReadStatus(cluster, "RoleBinding", Namespace, RoleBindingName)) :
        /\ Logged(p, Call("read", "RoleBinding", Namespace, RoleBindingName, st,
                          ReadStatus(cluster, "RoleBinding", Namespace, RoleBindingName)))
        /\ IF st = 200 THEN Goto(p, "apply_yaml") /\ bootOut' = BootDone(cluster, log'[p])
           ELSE IF RoleBindingMissing(st) THEN Goto(p, "create_rb") /\ UNCHANGED bootOut
           ELSE Raise(p, "ApiException", st) /\ UNCHANGED bootOut
    /\ UNCHANGED <<procs, faults, cluster, ingress, envFile, url, env_vars, sawIngress,
                   startFile, environ, jac_program, lastImport, prevBootOut, written,
                   thr, attached>>

CreateRb(p) ==
    /\ pc[p] = "create_rb"
    /\ CreateCall(p, RoleBindingObj(Namespace), "apply_yaml")
    /\ bootOut' = IF pc'[p] = "apply_yaml" THEN BootDone(cluster', log'[p]) ELSE bootOut
    /\ UNCHANGED <<procs, faults, ingress, envFile, url, env_vars, sawIngress,
                   startFile, environ, jac_program, lastImport, prevBootOut, written,
                   thr, attached>>

(***************************************************************************)
(* apply_pod_manager_yaml                                                  *)
(***************************************************************************)
\* the statuses of the objects utils.create_from_yaml could not create, in
\* manifest order: FailToCreateError.api_exceptions
Failures(statuses) == SelectSeq(statuses, LAMBDA st : st # 200)

\* every failure swallowed
ApplyRaises_Never(api_exceptions) == FALSE

\* the handler of FailToCreateError: TRUE when it re-raises
ApplyRaises(api_exceptions) ==
    \E i \in 1..Len(api_exceptions) : api_exceptions[i] # Conflict

ApplyYaml(p) ==
    /\ pc[p] = "apply_yaml"
    /\ \/ ConfigFails(p) /\ UNCHANGED <<cluster, ingress>>
       \/ \* anything but FailToCreateError: the file cannot be read, no connection
          /\ faults # {}
          /\ Raise(p, "Exception", 0)
          /\ Logged(p, Call("apply", "Manifest", Namespace, "", 0, 200))
          /\ UNCHANGED <<cluster, ingress>>
       \/ \E inject \in [1..Len(Manifest(Namespace)) -> {0} \cup faults] :
            LET m == Manifest(Namespace)
                statuses == [i \in 1..Len(m) |->
                               IF inject[i] # 0 THEN inject[i]
                               ELSE CreateStatus(cluster, m[i])]
                created == {m[i] : i \in {j \in 1..Len(m) : statuses[j] = 200}}
                failures == Failures(statuses)
            IN /\ cluster' = cluster \cup created
               /\ ingress' = IF \E o \in created : o.kind = "Service"
                             THEN <<>> ELSE ingress
               /\ log' = [log EXCEPT ![p] = @ \o
                            [i \in 1..Len(m) |->
                               Call("create", m[i].kind, m[i].namespace, m[i].name, statuses[i],
                                    CreateStatus(cluster, m[i]))]]
               /\ IF failures # <<>> /\ ApplyRaises(failures)
                  THEN Raise(p, "FailToCreateError",
                             failures[CHOOSE i \in 1..Len(failures) :
                                        /\ failures[i] # Conflict
                                        /\ \A j \in 1..(i - 1) : failures[j] = Conflict])
                  ELSE Goto(p, "get_url")
    /\ UNCHANGED <<procs, faults, envFile, url, env_vars, sawIngress, startFile, environ,
                   jac_program, lastImport, bootOut, prevBootOut, written, thr, attached>>

(***************************************************************************)
(* configure_pod_manager_url and get_loadbalancer_url                      *)
(***************************************************************************)
\* the hostname preferred to the IP
GetLoadbalancerUrl_HostFirst(ing) ==
    IF Len(ing) > 0
    THEN LET ip == ing[1].ip
             hostname == ing[1].hostname
         IN IF Truthy(hostname) THEN hostname
            ELSE IF Truthy(ip) THEN ip
            ELSE NONE
    ELSE NONE

\* the try block of get_loadbalancer_url, given the ingress list it read
GetLoadbalancerUrl(ing) ==
    IF Len(ing) > 0
    THEN LET ip == ing[1].ip
             hostname == ing[1].hostname
         IN IF Truthy(ip) THEN ip
            ELSE IF Truthy(hostname) THEN hostname
            ELSE NONE
    ELSE NONE

\* the result of the resolution not tested
UrlResolved_Always(u) == TRUE

\* "if url:" of configure_pod_manager_url
UrlResolved(u) == Truthy(u)

GetUrl(p) ==
    /\ pc[p] = "get_url"
    /\ \/ /\ ConfigFails(p)
          /\ UNCHANGED <<url, sawIngress>>
       \/ \E st \in Answers(ReadStatus(cluster, "Service", Namespace, ServiceName)) :
            LET result == IF st = 200 THEN GetLoadbalancerUrl(ingress) ELSE NONE
            IN /\ Logged(p, Call("read", "Service", Namespace, ServiceName, st,
                                 ReadStatus(cluster, "Service", Namespace, ServiceName)))
               /\ sawIngress' = [sawIngress EXCEPT ![p] =
                                   IF st = 200 THEN Some(ingress) ELSE None]
               /\ url' = [url EXCEPT ![p] = result]
               /\ IF UrlResolved(result) THEN Goto(p, "read_env") ELSE Goto(p, "ready")
    /\ UNCHANGED <<procs, faults, cluster, ingress, envFile, env_vars, startFile, environ,
                   jac_program, lastImport, bootOut, prevBootOut, written, thr, attached>>

\* env_vars after the read loop and the update of POD_MANAGER_URL
ReadVars(file) == IF file.exists THEN ParseEnv(file.lines, <<>>)
                  ELSE [ok |-> TRUE, vars |-> <<>>]

\* the dict replaced instead of updated: every other key is lost
UpdateUrl_Overwrite(d, pod_manager_url_local) == <<<<UrlKey, pod_manager_url_local>>>>

\* env_vars["POD_MANAGER_URL"] = pod_manager_url_local
UpdateUrl(d, pod_manager_url_local) == DictSet(d, UrlKey, pod_manager_url_local)

ReadEnv(p) ==
    /\ pc[p] = "read_env"
    /\ IF ReadVars(envFile).ok
       THEN /\ env_vars' = [env_vars EXCEPT ![p] =
                              UpdateUrl(ReadVars(envFile).vars, PodManagerUrl(url[p]))]
            /\ Goto(p, "write_env")
       ELSE /\ Raise(p, "ValueError", 0)
            /\ UNCHANGED env_vars
    /\ UNCHANGED <<procs, faults, cluster, ingress, envFile, log, url, sawIngress, startFile,
                   environ, jac_program, lastImport, bootOut, prevBootOut, written,
                   thr, attached>>

WriteEnv(p) ==
    /\ pc[p] = "write_env"
    /\ envFile' = File(FormatEnv(env_vars[p]))
    /\ Goto(p, "ready")
    /\ UNCHANGED <<procs, faults, cluster, ingress, log, url, env_vars, sawIngress, startFile,
                   environ, jac_program, lastImport, bootOut, prevBootOut, written,
                   thr, attached>>

(***************************************************************************)
(* The write-back, statement by statement: open(env_file_path, "w")        *)
(* truncates the file; each env_file.write hands a line to the buffered    *)
(* writer, which may pass what it holds on to the file; leaving the with   *)
(* block flushes the rest.  A process that stops loses what is buffered.   *)
(***************************************************************************)
OpenEnv(p) ==
    /\ pc[p] = "write_env"
    /\ envFile' = File(<<>>)
    /\ written' = [written EXCEPT ![p] = 0]
    /\ Goto(p, "writing")
    /\ UNCHANGED <<procs, faults, cluster, ingress, log, url, env_vars, sawIngress, startFile,
                   environ, jac_program, lastImport, bootOut, prevBootOut, thr, attached>>

WriteLine(p) ==
    /\ pc[p] = "writing"
    /\ written[p] < Len(env_vars[p])
    /\ written' = [written EXCEPT ![p] = @ + 1]
    /\ \/ UNCHANGED envFile
       \/ envFile' = File(SubSeq(FormatEnv(env_vars[p]), 1, written'[p]))
    /\ UNCHANGED <<procs, faults, cluster, ingress, pc, err, log, url, env_vars, sawIngress,
                   startFile, environ, jac_program, lastImport, bootOut, prevBootOut,
                   thr, attached>>

CloseEnv(p) ==
    /\ pc[p] = "writing"
    /\ written[p] = Len(env_vars[p])
    /\ envFile' = File(FormatEnv(env_vars[p]))
    /\ Goto(p, "ready")
    /\ UNCHANGED <<procs, faults, cluster, ingress, log, url, env_vars, sawIngress, startFile,
                   environ, jac_program, lastImport, bootOut, prevBootOut, written,
                   thr, attached>>

\* the process stops (a signal, power loss) between two statements of
\* configure_pod_manager_url
Kill(p) ==
    /\ pc[p] \in {"read_env", "write_env", "writing"}
    /\ pc' = [pc EXCEPT ![p] = "killed"]
    /\ UNCHANGED <<procs, faults, cluster, ingress, envFile, err, log, url, env_vars, sawIngress,
                   startFile, environ, jac_program, lastImport, bootOut, prevBootOut, written,
                   thr, attached>>

(***************************************************************************)
(* The environment: the cloud assigns or changes the service's address.    *)
(***************************************************************************)
IngressUpdate ==
    /\ Exists(cluster, "Service", Namespace, ServiceName)
    /\ \E ing \in IngressValues : ing # ingress /\ ingress' = ing
    /\ UNCHANGED <<procs, faults, cluster, envFile, pc, err, log, url, env_vars, sawIngress,
                   startFile, environ, jac_program, lastImport, bootOut, prevBootOut,
                   written, thr, attached>>

(***************************************************************************)
(* A process: importing the plugin module runs load_dotenv(), which copies *)
(* the .env file's variables into os.environ, keeping a variable the       *)
(* process already has.                                                    *)
(***************************************************************************)
StaleUrl == <<"http://", "192.0.2.9", ":8000">>

\* POD_MANAGER_URL as load_dotenv() leaves it in os.environ
LoadDotenv(inherited, file) ==
    IF inherited # None THEN inherited
    ELSE IF file.exists /\ DictHas(ParseEnv(file.lines, <<>>).vars, UrlKey)
    THEN Some(DictGet(ParseEnv(file.lines, <<>>).vars, UrlKey))
    ELSE None

ProcStart(p) ==
    /\ pc[p] = "off"
    /\ pc' = [pc EXCEPT ![p] = "loaded"]
    /\ \E inherited \in {None, Some(StaleUrl)} :
         environ' = [environ EXCEPT ![p] = LoadDotenv(inherited, envFile)]
    /\ UNCHANGED <<procs, faults, cluster, ingress, envFile, err, log, url, env_vars, sawIngress,
                   startFile, jac_program, lastImport, bootOut, prevBootOut, written,
                   thr, attached>>

ProcExit(p) ==
    /\ pc[p] \in {"loaded", "ready", "failed"}
    /\ pc' = [pc EXCEPT ![p] = "off"]
    /\ err' = [err EXCEPT ![p] = NoErr]
    /\ log' = [log EXCEPT ![p] = <<>>]
    /\ url' = [url EXCEPT ![p] = NONE]
    /\ env_vars' = [env_vars EXCEPT ![p] = <<>>]
    /\ sawIngress' = [sawIngress EXCEPT ![p] = None]
    /\ startFile' = [startFile EXCEPT ![p] = NoFile]
    /\ environ' = [environ EXCEPT ![p] = None]
    /\ jac_program' = [jac_program EXCEPT ![p] = FALSE]
    /\ attached' = [attached EXCEPT ![p] = <<>>]
    /\ UNCHANGED <<procs, faults, cluster, ingress, envFile, lastImport, bootOut, prevBootOut,
                   written, thr>>

(***************************************************************************)
(* jac_import                                                              *)
(***************************************************************************)
\* settings.module_config: "os" is not configured
module_config ==
    [t \in {"math", "numpy"} |->
        [load_type |-> IF t = "numpy" THEN "remote" ELSE "local"]]

Targets == {"os", "math", "numpy"}
Languages == {"py", "jac"}

\* items: None, {} or the requested names in request order
NoItems == [given |-> FALSE, names |-> <<>>]
ItemsInputs ==
    {NoItems, [given |-> TRUE, names |-> <<>>],
     [given |-> TRUE, names |-> <<"b", "a">>]}
ItemsTruthy(items) == items.given /\ Len(items.names) > 0

ModuleObj(name) == [kind |-> "module", name |-> name, endpoint |-> None]
ItemObj(name) == [kind |-> "item", name |-> name, endpoint |-> None]
ProxyObj(name, pod_manager_url) ==
    [kind |-> "proxy", name |-> name, endpoint |-> pod_manager_url]

\* the load type not looked at: every configured module goes remote
IsRemote_AnyConfigured(target) == target \in DOMAIN module_config

\* the condition of the remote branch
IsRemote(target) ==
    target \in DOMAIN module_config /\ module_config[target].load_type = "remote"

\* ModuleProxy(pod_manager_url).get_module_proxy(...): the proxy, or a failure
\* to reach the manager
GetModuleProxyOutcomes == {"none", "RemoteUnreachableError"}

\* PythonImporter / JacImporter run_import: the module and the requested items
RunImport(target, items) ==
    [ret_mod |-> ModuleObj(target),
     ret_items |-> [i \in 1..Len(items.names) |-> ItemObj(items.names[i])]]
RunImportOutcomes == {"none", "ImportError"}

\* which importer the local branch runs
LocalImporter(lng) == IF lng = "py" THEN "PythonImporter" ELSE "JacImporter"

\* absorb not looked at
ReturnShape_IgnoreAbsorb(absorb, items, import_result) ==
    IF ~ItemsTruthy(items)
    THEN <<import_result.ret_mod>>
    ELSE import_result.ret_items

\* the return statement of the local branch
ReturnShape(absorb, items, import_result) ==
    IF absorb \/ ~ItemsTruthy(items)
    THEN <<import_result.ret_mod>>
    ELSE import_result.ret_items

\* the threads of a process that call jac_import, and its main thread
Threads == 1..MaxThreads
MainThread == 0

\* a thread that is not inside jac_import
IdleThread == [at |-> "idle", target |-> "", lng |-> NONE]

\* lines 287-288 run without interruption: a JacProgram is attached when the
\* machine has none
AttachIfNone(programs, t) == IF programs = <<>> THEN <<t>> ELSE programs

NoImport ==
    [proc |-> 0, from |-> "none", target |-> "", lng |-> NONE, absorb |-> FALSE,
     items |-> NoItems,
     route |-> "none", getenv |-> FALSE, proxy_args |-> <<>>, importer |-> "none",
     raised |-> "none", result |-> <<>>]

\* a remote import that finds no endpoint runs the bootstrap itself
JacImport_AutoBootstrap(p) ==
    /\ pc[p] \in {"loaded", "ready"}
    /\ \E target \in {t \in Targets : t \in DOMAIN module_config} :
         lastImport' = [NoImport EXCEPT !.proc = p, !.from = pc[p], !.target = target,
                                        !.route = "remote", !.getenv = TRUE]
    /\ pc' = [pc EXCEPT ![p] = IF environ[p] = None THEN "list_ns" ELSE "imported"]
    /\ UNCHANGED <<procs, faults, cluster, ingress, envFile, err, log, url, env_vars,
                   sawIngress, startFile, environ, jac_program, bootOut, prevBootOut,
                   written, thr, attached>>

JacImport(p) ==
    /\ pc[p] \in {"loaded", "ready"}
    /\ \E target \in Targets, lng \in Languages, absorb \in BOOLEAN,
          items \in ItemsInputs :
         LET call == [NoImport EXCEPT !.proc = p, !.from = pc[p], !.target = target,
                                      !.lng = lng, !.absorb = absorb, !.items = items]
         IN IF IsRemote(target)
            THEN /\ \E out \in GetModuleProxyOutcomes :
                      lastImport' =
                          [call EXCEPT !.route = "remote", !.getenv = TRUE,
                                       !.proxy_args = <<environ[p]>>,
                                       !.raised = out,
                                       !.result = IF out = "none"
                                                  THEN <<ProxyObj(target, environ[p])>>
                                                  ELSE <<>>]
                 /\ UNCHANGED <<jac_program, attached>>
            ELSE /\ \E out \in RunImportOutcomes :
                      lastImport' =
                          [call EXCEPT !.route = "local",
                                       !.importer = LocalImporter(lng),
                                       !.raised = out,
                                       !.result = IF out = "none"
                                                  THEN ReturnShape(absorb, items,
                                                                   RunImport(target, items))
                                                  ELSE <<>>]
                 /\ jac_program' = [jac_program EXCEPT ![p] = TRUE]
                 /\ attached' = [attached EXCEPT ![p] = AttachIfNone(@, MainThread)]
    /\ pc' = [pc EXCEPT ![p] = "imported"]
    /\ UNCHANGED <<procs, faults, cluster, ingress, envFile, err, log, url, env_vars,
                   sawIngress, startFile, environ, bootOut, prevBootOut, written,
                   thr>>

\* the host runtime has taken the result (or the exception) of the call
ImportReturn(p) ==
    /\ pc[p] = "imported"
    /\ lastImport.proc = p
    /\ pc' = [pc EXCEPT ![p] = lastImport.from]
    /\ lastImport' = NoImport
    /\ UNCHANGED <<procs, faults, cluster, ingress, envFile, err, log, url, env_vars, sawIngress,
                   startFile, environ, jac_program, bootOut, prevBootOut, written,
                   thr, attached>>

(***************************************************************************)
(* jac_import called by several threads of one process, statement by       *)
(* statement: the threads share the machine JacMachine.get(base_path)      *)
(* returns, and a thread may be suspended between any two statements.      *)
(***************************************************************************)
\* the call up to line 286: the remote branch returns, the local branch has
\* built the ImportPathSpec and fetched the machine
ThreadCall(p, t) ==
    /\ pc[p] \in {"loaded", "ready"}
    /\ thr[t].at = "idle"
    /\ \E target \in Targets, lng \in Languages :
         thr' = [thr EXCEPT ![t] = [at |-> IF IsRemote(target) THEN "done" ELSE "check",
                                    target |-> target, lng |-> lng]]
    /\ UNCHANGED <<procs, faults, cluster, ingress, envFile, pc, err, log, url, env_vars,
                   sawIngress, startFile, environ, jac_program, lastImport, bootOut,
                   prevBootOut, written, attached>>

\* if not jac_machine.jac_program
CheckProgram(p, t) ==
    /\ thr[t].at = "check"
    /\ thr' = [thr EXCEPT ![t].at = IF attached[p] = <<>> THEN "attach" ELSE "import"]
    /\ UNCHANGED <<procs, faults, cluster, ingress, envFile, pc, err, log, url, env_vars,
                   sawIngress, startFile, environ, jac_program, lastImport, bootOut,
                   prevBootOut, written, attached>>

\* jac_machine.attach_program(JacProgram(mod_bundle=None, bytecode=None))
AttachProgram(p, t) ==
    /\ thr[t].at = "attach"
    /\ attached' = [attached EXCEPT ![p] = Append(@, t)]
    /\ jac_program' = [jac_program EXCEPT ![p] = TRUE]
    /\ thr' = [thr EXCEPT ![t].at = "import"]
    /\ UNCHANGED <<procs, faults, cluster, ingress, envFile, pc, err, log, url, env_vars,
                   sawIngress, startFile, environ, lastImport, bootOut, prevBootOut, written>>

\* run_import and the return statement
RunImporter(p, t) ==
    /\ thr[t].at = "import"
    /\ thr' = [thr EXCEPT ![t].at = "done"]
    /\ UNCHANGED <<procs, faults, cluster, ingress, envFile, pc, err, log, url, env_vars,
                   sawIngress, startFile, environ, jac_program, lastImport, bootOut,
                   prevBootOut, written, attached>>

\* the caller has the result; the thread may import again
ThreadReturn(p, t) ==
    /\ thr[t].at = "done"
    /\ thr' = [thr EXCEPT ![t] = IdleThread]
    /\ UNCHANGED <<procs, faults, cluster, ingress, envFile, pc, err, log, url, env_vars,
                   sawIngress, startFile, environ, jac_program, lastImport, bootOut,
                   prevBootOut, written, attached>>

(***************************************************************************)
(* Initial states                                                          *)
(***************************************************************************)
OtherLine == <<"API_KEY", "=", Quote, "secret", Quote>>
StaleLine == UrlKey \o <<"=", Quote>> \o StaleUrl \o <<Quote>>
CommentLine == <<"#", " ", "local", " ", "settings">>

\* the clusters an activation may meet: the namespace and, inside it, any of
\* the objects the plugin looks for
InNamespace ==
    {ServiceAccountObj(Namespace), RoleObj(Namespace),
     Obj("Role", Namespace, RoleName, DivergentRules),
     RoleBindingObj(Namespace)} \cup
    {Manifest(Namespace)[i] : i \in 1..Len(Manifest(Namespace))}

InitClusters ==
    {{NamespaceObj("default")}} \cup
    {{NamespaceObj("default"), NamespaceObj(Namespace)} \cup objs :
        objs \in {s \in SUBSET InNamespace :
                    ~(RoleObj(Namespace) \in s
                      /\ Obj("Role", Namespace, RoleName, DivergentRules) \in s)}}

InitProc(state) ==
    /\ procs = {1}
    /\ pc = [p \in procs |-> state]
    /\ err = [p \in procs |-> NoErr]
    /\ log = [p \in procs |-> <<>>]
    /\ url = [p \in procs |-> NONE]
    /\ env_vars = [p \in procs |-> <<>>]
    /\ sawIngress = [p \in procs |-> None]
    /\ startFile = [p \in procs |-> NoFile]
    /\ environ = [p \in procs |-> None]
    /\ jac_program = [p \in procs |-> FALSE]
    /\ lastImport = NoImport
    /\ bootOut = None
    /\ prevBootOut = None
    /\ written = [p \in procs |-> 0]
    /\ thr = [t \in Threads |-> IdleThread]
    /\ attached = [p \in procs |-> <<>>]

InitCluster ==
    /\ cluster \in InitClusters
    /\ ingress \in IF Exists(cluster, "Service", Namespace, ServiceName)
                   THEN IngressValues ELSE {<<>>}

\* activation against any cluster
Init ==
    /\ InitProc("loaded")
    /\ faults = FaultStatuses
    /\ InitCluster
    /\ envFile \in {NoFile, File(<<>>), File(<<OtherLine>>),
                    File(<<OtherLine, StaleLine>>), File(<<CommentLine, OtherLine>>)}

Next ==
    \/ \E p \in procs : Start(p)
    \/ \E p \in procs : ListNs(p)
    \/ \E p \in procs : CreateNs(p)
    \/ \E p \in procs : ReadSa(p)
    \/ \E p \in procs : CreateSa(p)
    \/ \E p \in procs : ReadRole(p)
    \/ \E p \in procs : CreateRole(p)
    \/ \E p \in procs : ReadRb(p)
    \/ \E p \in procs : CreateRb(p)
    \/ \E p \in procs : ApplyYaml(p)
    \/ \E p \in procs : GetUrl(p)
    \/ \E p \in procs : ReadEnv(p)
    \/ \E p \in procs : WriteEnv(p)
    \/ IngressUpdate

Spec == Init /\ [][Next]_vars

\* a cluster on which an earlier activation has deployed the manager
DeployedCluster ==
    {NamespaceObj("default"), NamespaceObj(Namespace), ServiceAccountObj(Namespace),
     RoleObj(Namespace), RoleBindingObj(Namespace)} \cup
    {Manifest(Namespace)[i] : i \in 1..Len(Manifest(Namespace))}

\* processes that load the plugin, activate it and import modules
InitImport ==
    /\ InitProc("off")
    /\ faults = {}
    /\ \/ cluster = {NamespaceObj("default")} /\ ingress = <<>>
       \/ cluster = DeployedCluster /\ ingress \in IngressValues
    /\ envFile \in {NoFile, File(<<OtherLine, StaleLine>>)}

NextImport ==
    \/ Next
    \/ \E p \in procs : ProcStart(p)
    \/ \E p \in procs : ProcExit(p)
    \/ \E p \in procs : JacImport(p)
    \/ \E p \in procs : ImportReturn(p)

SpecImport == InitImport /\ [][NextImport]_vars

(***************************************************************************)
(* The persistence step on any well-formed store: lines key="value" or     *)
(* key=value, blank lines, blanks around a line; a value holds no double   *)
(* quote.                                                                  *)
(***************************************************************************)
StoreKeys == {<<"API_KEY">>, <<"DEBUG">>, UrlKey}
StoreValues == {<<"secret">>, <<"a", "=", "b", " ">>}

WellFormedLines ==
    {<<>>, <<"DEBUG", "=", Quote, Quote>>} \cup
    {k \o <<"=", Quote>> \o v \o <<Quote>> : k \in StoreKeys, v \in StoreValues} \cup
    {k \o <<"=">> \o PyStrip(v, Whitespace) : k \in StoreKeys, v \in StoreValues} \cup
    {<<" ">> \o k \o <<"=", Quote>> \o v \o <<Quote, " ", "\n">> :
        k \in StoreKeys, v \in StoreValues}

WellFormedFiles ==
    UNION {[1..n -> WellFormedLines] : n \in 0..MaxLines}

\* the calls of an activation that found everything in place, up to the
\* manifest apply
DeployedLog ==
    << Call("list", "Namespace", "", "", 200, 200),
       Call("read", "ServiceAccount", Namespace, ServiceAccountName, 200, 200),
       Call("read", "Role", Namespace, RoleName, 200, 200),
       Call("read", "RoleBinding", Namespace, RoleBindingName, 200, 200),
       Call("create", "Deployment", Namespace, DeploymentName, Conflict, Conflict),
       Call("create", "Service", Namespace, ServiceName, Conflict, Conflict) >>

\* an activation about to resolve the endpoint, the store holding anything
\* well-formed
InitStore ==
    /\ procs = {1}
    /\ faults = {}
    /\ cluster = DeployedCluster
    /\ ingress \in IngressValues
    /\ envFile \in {NoFile} \cup {File(f) : f \in WellFormedFiles}
    /\ pc = [p \in procs |-> "get_url"]
    /\ err = [p \in procs |-> NoErr]
    /\ log = [p \in procs |-> DeployedLog]
    /\ url = [p \in procs |-> NONE]
    /\ env_vars = [p \in procs |-> <<>>]
    /\ sawIngress = [p \in procs |-> None]
    /\ startFile = [p \in procs |-> envFile]
    /\ environ = [p \in procs |-> None]
    /\ jac_program = [p \in procs |-> FALSE]
    /\ lastImport = NoImport
    /\ bootOut = BootDone(DeployedCluster, DeployedLog)
    /\ prevBootOut = None
    /\ written = [p \in procs |-> 0]
    /\ thr = [t \in Threads |-> IdleThread]
    /\ attached = [p \in procs |-> <<>>]

NextStore ==
    \/ \E p \in procs : GetUrl(p)
    \/ \E p \in procs : ReadEnv(p)
    \/ \E p \in procs : WriteEnv(p)

SpecStore == InitStore /\ [][NextStore]_vars

\* the same step with the write-back taken statement by statement, in a
\* process that may stop at any point of it
NextWrite ==
    \/ \E p \in procs : GetUrl(p)
    \/ \E p \in procs : ReadEnv(p)
    \/ \E p \in procs : OpenEnv(p)
    \/ \E p \in procs : WriteLine(p)
    \/ \E p \in procs : CloseEnv(p)
    \/ \E p \in procs : Kill(p)

SpecWrite == InitStore /\ [][NextWrite]_vars

(***************************************************************************)
(* Two processes start at the same time against the same cluster and run   *)
(* the bootstrap; the control plane answers truthfully.                    *)
(***************************************************************************)
InitRace ==
    /\ procs = {1, 2}
    /\ faults = {}
    /\ cluster \in {c \in InitClusters : BootObjects(c) = c}
    /\ ingress = <<>>
    /\ envFile = NoFile
    /\ pc = [p \in procs |-> "loaded"]
    /\ err = [p \in procs |-> NoErr]
    /\ log = [p \in procs |-> <<>>]
    /\ url = [p \in procs |-> NONE]
    /\ env_vars = [p \in procs |-> <<>>]
    /\ sawIngress = [p \in procs |-> None]
    /\ startFile = [p \in procs |-> NoFile]
    /\ environ = [p \in procs |-> None]
    /\ jac_program = [p \in procs |-> FALSE]
    /\ lastImport = NoImport
    /\ bootOut = None
    /\ prevBootOut = None
    /\ written = [p \in procs |-> 0]
    /\ thr = [t \in Threads |-> IdleThread]
    /\ attached = [p \in procs |-> <<>>]

NextRace ==
    \/ \E p \in procs : Start(p)
    \/ \E p \in procs : ListNs(p)
    \/ \E p \in procs : CreateNs(p)
    \/ \E p \in procs : ReadSa(p)
    \/ \E p \in procs : CreateSa(p)
    \/ \E p \in procs : ReadRole(p)
    \/ \E p \in procs : CreateRole(p)
    \/ \E p \in procs : ReadRb(p)
    \/ \E p \in procs : CreateRb(p)

SpecRace == InitRace /\ [][NextRace]_vars

(***************************************************************************)
(* The threads of one process import modules at the same time; the machine *)
(* has no program yet, or the one an earlier import attached.              *)
(***************************************************************************)
InitThreads ==
    /\ procs = {1}
    /\ faults = {}
    /\ cluster = DeployedCluster
    /\ ingress = <<>>
    /\ envFile = NoFile
    /\ pc = [p \in procs |-> "ready"]
    /\ err = [p \in procs |-> NoErr]
    /\ log = [p \in procs |-> DeployedLog]
    /\ url = [p \in procs |-> NONE]
    /\ env_vars = [p \in procs |-> <<>>]
    /\ sawIngress = [p \in procs |-> None]
    /\ startFile = [p \in procs |-> NoFile]
    /\ environ = [p \in procs |-> None]
    /\ lastImport = NoImport
    /\ bootOut = BootDone(DeployedCluster, DeployedLog)
    /\ prevBootOut = None
    /\ written = [p \in procs |-> 0]
    /\ thr = [t \in Threads |-> IdleThread]
    /\ \E before \in {<<>>, <<MainThread>>} :
         /\ attached = [p \in procs |-> before]
         /\ jac_program = [p \in procs |-> before # <<>>]

NextThreads ==
    \/ \E p \in procs, t \in Threads : ThreadCall(p, t)
    \/ \E p \in procs, t \in Threads : CheckProgram(p, t)
    \/ \E p \in procs, t \in Threads : AttachProgram(p, t)
    \/ \E p \in procs, t \in Threads : RunImporter(p, t)
    \/ \E p \in procs, t \in Threads : ThreadReturn(p, t)

SpecThreads == InitThreads /\ [][NextThreads]_vars

(***************************************************************************)
(* The claims                                                              *)
(***************************************************************************)
BootPcs == {"list_ns", "create_ns", "read_sa", "create_sa",
            "read_role", "create_role", "read_rb", "create_rb"}

\* a bootstrap call of the activation was answered with a failure of the
\* control plane (or the client configuration could not be loaded)
FaultInBoot(p) ==
    \E i \in 1..Len(log[p]) :
        /\ log[p][i].fault
        /\ \/ log[p][i].kind \in BootKinds
           \/ log[p][i].op = "config" /\ log[p][i].name \in BootPcs

BootCreates(p) ==
    {i \in 1..Len(log[p]) : log[p][i].op = "create" /\ log[p][i].kind \in BootKinds}

\* C1: a bootstrap that follows a finished bootstrap, and whose calls the
\* control plane answers truthfully, raises nothing, creates nothing, leaves
\* the bootstrap objects as the first one left them and names the same
\* namespace, service account, role and role binding.
C1_BootstrapIdempotent ==
    \A p \in procs :
        (prevBootOut # None /\ ~FaultInBoot(p)) =>
            /\ ~(pc[p] = "failed" /\ err[p].at \in BootPcs)
            /\ BootCreates(p) = {}
            /\ BootObjects(cluster) = prevBootOut[1].objects
            /\ (bootOut # None => bootOut = prevBootOut)

\* a second activation ran to its end after a first one finished its bootstrap
C1_Witness ==
    \E p \in procs :
        /\ prevBootOut # None /\ bootOut # None /\ ~FaultInBoot(p)
        /\ pc[p] = "ready"
        /\ RoleObj(Namespace) \in prevBootOut[1].objects

\* C2: an import of a module that is not configured, or configured local,
\* runs the local importer of the request's language, never reads
\* POD_MANAGER_URL and never builds a ModuleProxy; an import of a module
\* configured remote runs no local importer.
C2_RoutingCorrect ==
    lastImport # NoImport =>
        LET t == lastImport.target
            remote == t \in DOMAIN module_config /\ module_config[t].load_type = "remote"
        IN IF remote
           THEN lastImport.importer = "none"
           ELSE /\ lastImport.importer \in {"PythonImporter", "JacImporter"}
                /\ (lastImport.importer = "PythonImporter") <=> (lastImport.lng = "py")
                /\ ~lastImport.getenv
                /\ lastImport.proxy_args = <<>>

\* an import of a module that is not configured went to the Jac importer
C2_Witness ==
    /\ lastImport.target = "os"
    /\ lastImport.importer = "JacImporter"
    /\ lastImport.raised = "none"

\* C3 (as claimed): a remote-mode import made while POD_MANAGER_URL is unset
\* raises ConfigurationError and builds no proxy.
C3_MissingEndpointRaises ==
    (lastImport.route = "remote" /\ environ[lastImport.proc] = None) =>
        /\ lastImport.raised = "ConfigurationError"
        /\ lastImport.proxy_args = <<>>
        /\ lastImport.result = <<>>

\* C4 (as claimed): once the activation of a process has resolved address A
\* and written http://A:8000, a remote-mode import of that process builds its
\* proxy against http://A:8000.
C4_ImportUsesLearnedEndpoint ==
    \A p \in procs :
        (/\ pc[p] = "imported" /\ lastImport.proc = p
         /\ lastImport.route = "remote"
         /\ lastImport.from = "ready" /\ UrlResolved(url[p])) =>
            lastImport.proxy_args = <<Some(PodManagerUrl(url[p]))>>

\* C5: when get_loadbalancer_url reads an empty ingress list it returns None,
\* the activation ends normally at once, and the .env file is what it was
\* when the activation began.
C5_UnreadyEndpoint ==
    \A p \in procs :
        sawIngress[p] = Some(<<>>) =>
            /\ url[p] = NONE
            /\ pc[p] = "ready"
            /\ err[p] = NoErr
            /\ envFile = startFile[p]

\* an activation ended on an empty ingress list with a .env file in place
C5_Witness ==
    \E p \in procs :
        /\ sawIngress[p] = Some(<<>>)
        /\ pc[p] = "ready"
        /\ startFile[p] = File(<<OtherLine, StaleLine>>)

\* C6: after configure_pod_manager_url has written a resolved address into a
\* well-formed store, every key the store held other than POD_MANAGER_URL is
\* still there with its value, and POD_MANAGER_URL reads back as the value
\* written.
C6_MergeSafe ==
    \A p \in procs :
        (pc[p] = "ready" /\ UrlResolved(url[p])) =>
            LET before == ReadVars(startFile[p]).vars
                after == ReadVars(envFile)
            IN /\ after.ok
               /\ \A k \in DictKeys(before) \ {UrlKey} :
                     DictHas(after.vars, k) /\ DictGet(after.vars, k) = DictGet(before, k)
               /\ DictHas(after.vars, UrlKey)
               /\ DictGet(after.vars, UrlKey) = PodManagerUrl(url[p])

\* the address was written into a store that held another key and an older
\* POD_MANAGER_URL
C6_Witness ==
    \E p \in procs :
        /\ pc[p] = "ready" /\ UrlResolved(url[p])
        /\ DictKeys(ReadVars(startFile[p]).vars) = {<<"API_KEY">>, UrlKey}
        /\ startFile[p] # envFile

\* C7: with a first ingress entry that has an IP the resolved address is the
\* IP, whether or not it has a hostname; the hostname is the result only when
\* the entry has no IP.
C7_AddressTieBreak ==
    \A p \in procs :
        (sawIngress[p] # None /\ Len(sawIngress[p][1]) > 0) =>
            LET e == sawIngress[p][1][1]
            IN /\ Truthy(e.ip) => url[p] = e.ip
               /\ (Truthy(url[p]) /\ url[p] = e.hostname) => ~Truthy(e.ip)
               /\ (~Truthy(e.ip) /\ Truthy(e.hostname)) => url[p] = e.hostname

\* an entry with both an IP and a hostname was resolved and written
C7_Witness ==
    \E p \in procs :
        /\ sawIngress[p] # None /\ Len(sawIngress[p][1]) > 0
        /\ Truthy(sawIngress[p][1][1].ip) /\ Truthy(sawIngress[p][1][1].hostname)
        /\ url[p] = sawIngress[p][1][1].ip
        /\ pc[p] = "ready"

\* C8: an import that returns from the local branch returns the module alone
\* when absorb is set or no items were requested, and the requested items in
\* request order otherwise; one that returns from the remote branch returns
\* the proxy alone.
C8_ReturnShape ==
    (lastImport # NoImport /\ lastImport.raised = "none") =>
        LET t == lastImport.target
            remote == t \in DOMAIN module_config /\ module_config[t].load_type = "remote"
            names == lastImport.items.names
        IN IF remote
           THEN /\ Len(lastImport.result) = 1
                /\ lastImport.result[1].kind = "proxy"
                /\ lastImport.result[1].name = t
           ELSE IF lastImport.absorb \/ ~lastImport.items.given \/ names = <<>>
           THEN lastImport.result = <<ModuleObj(t)>>
           ELSE lastImport.result = [i \in 1..Len(names) |-> ItemObj(names[i])]

\* a local import of two items, absorb unset, returned the two items
C8_Witness ==
    /\ lastImport.route = "local"
    /\ ~lastImport.absorb
    /\ lastImport.result = <<ItemObj("b"), ItemObj("a")>>

ManifestKinds == {"Deployment", "Service"}

\* the per-object answers of the manifest apply, in manifest order
ApplyCalls(p) ==
    SelectSeq(log[p], LAMBDA c : c.op = "create" /\ c.kind \in ManifestKinds)

\* the activation went on to the endpoint resolution
Resolving(p) ==
    \/ pc[p] = "get_url"
    \/ \E i \in 1..Len(log[p]) :
         \/ log[p][i].op = "read" /\ log[p][i].kind = "Service"
         \/ log[p][i].op = "config" /\ log[p][i].name = "get_url"

\* C9: a manifest apply whose failures are all 409 ends without error and
\* the activation goes on to the endpoint resolution; an apply with a failure
\* of another status, or that meets any other exception, ends the activation
\* with that error, and neither the service is read nor the .env file written.
C9_ApplyErrorPolicy ==
    \A p \in procs :
        LET calls == ApplyCalls(p)
            failed == {i \in 1..Len(calls) : calls[i].status # 200}
            other == \E i \in 1..Len(log[p]) :
                        \/ log[p][i].op = "apply"
                        \/ log[p][i].op = "config" /\ log[p][i].name = "apply_yaml"
        IN /\ (calls # <<>> /\ \A i \in failed : calls[i].status = Conflict) =>
                /\ ~(pc[p] = "failed" /\ err[p].at = "apply_yaml")
                /\ Resolving(p)
           /\ (\E i \in failed : calls[i].status # Conflict) =>
                /\ pc[p] = "failed" /\ err[p].at = "apply_yaml"
                /\ err[p].type = "FailToCreateError"
                /\ \E i \in failed : calls[i].status # Conflict /\ err[p].status = calls[i].status
                /\ ~Resolving(p)
                /\ envFile = startFile[p]
           /\ other =>
                /\ pc[p] = "failed" /\ err[p].at = "apply_yaml"
                /\ err[p].type \in {"Exception", "ConfigException"}
                /\ ~Resolving(p)
                /\ envFile = startFile[p]

\* an apply that met only 409 was followed by a written endpoint
C9_Witness ==
    \E p \in procs :
        /\ ApplyCalls(p) # <<>>
        /\ \A i \in 1..Len(ApplyCalls(p)) : ApplyCalls(p)[i].status = Conflict
        /\ pc[p] = "ready" /\ UrlResolved(url[p])

ReadCreateKinds == {"ServiceAccount", "Role", "RoleBinding"}
ReadPc(kind) == CASE kind = "ServiceAccount" -> "read_sa"
                  [] kind = "Role" -> "read_role"
                  [] kind = "RoleBinding" -> "read_rb"
CreatePc(kind) == CASE kind = "ServiceAccount" -> "create_sa"
                    [] kind = "Role" -> "create_role"
                    [] kind = "RoleBinding" -> "create_rb"

\* C10: in the log of an activation each of service account, role and role
\* binding is read at most once; a read answered 404 is followed by one create
\* of that object (the next call, or the step the activation stands at); a
\* create only ever follows such a read; a read answered with another failure
\* is the last call, and the activation has ended with that ApiException.
C10_ReadOrCreate ==
    \A p \in procs : \A k \in ReadCreateKinds :
        LET l == log[p]
            reads == {i \in 1..Len(l) : l[i].op = "read" /\ l[i].kind = k}
            creates == {i \in 1..Len(l) : l[i].op = "create" /\ l[i].kind = k}
        IN /\ Cardinality(reads) <= 1
           /\ Cardinality(creates) <= 1
           /\ \A i \in reads : l[i].status = NotFound =>
                \/ i = Len(l) /\ pc[p] = CreatePc(k)
                \/ i < Len(l) /\ i + 1 \in creates
           /\ \A i \in creates :
                i > 1 /\ i - 1 \in reads /\ l[i - 1].status = NotFound
           /\ \A i \in reads : l[i].status \notin {200, NotFound} =>
                /\ i = Len(l)
                /\ pc[p] = "failed"
                /\ err[p] = [type |-> "ApiException", status |-> l[i].status,
                             at |-> ReadPc(k)]

\* the service account was created after a 404 and the read of the role then
\* failed with another status, which ended the activation
C10_Witness ==
    \E p \in procs :
        /\ pc[p] = "failed" /\ err[p].at = "read_role"
        /\ \E i \in 1..Len(log[p]) :
             log[p][i].op = "create" /\ log[p][i].kind = "ServiceAccount"
                /\ log[p][i].status = 200

\* the read of the manager service was answered with a control-plane failure
ServiceReadFailed(p) ==
    \E i \in 1..Len(log[p]) :
        /\ log[p][i].op = "read" /\ log[p][i].kind = "Service"
        /\ log[p][i].status # 200

\* C11 (as claimed): when the read of the manager service during the endpoint
\* resolution is answered with an API error (403, 500), the activation ends
\* with that ApiException and never ends normally.
C11_ResolveErrorAborts ==
    \A p \in procs :
        ServiceReadFailed(p) =>
            /\ pc[p] = "failed"
            /\ err[p].type = "ApiException"
            /\ err[p].at = "get_url"

\* the step is a jac_import call of process p / the return of one
ImportCall(p) == lastImport.proc # p /\ lastImport'.proc = p
ImportReturns(p) == lastImport.proc = p /\ lastImport'.proc # p

\* C12: a jac_import call, local or remote, returning or raising, leaves the
\* cluster objects, the service's address, the .env file and the process's
\* POD_MANAGER_URL as they were and makes no control-plane call; when it is
\* over the process is where it was before the call, not in any step of the
\* activation.
C12_ImportSideEffectFree ==
    [][\A p \in procs :
         /\ ImportCall(p) =>
              /\ UNCHANGED <<cluster, ingress, envFile, environ, log, bootOut>>
              /\ pc'[p] = "imported"
         /\ ImportReturns(p) =>
              /\ UNCHANGED <<cluster, ingress, envFile, environ, log, bootOut>>
              /\ pc'[p] = lastImport.from
              /\ pc'[p] \in {"loaded", "ready"}]_vars

\* a remote import failed to reach the manager, in a process whose activation
\* had written the endpoint
C12_Witness ==
    \E p \in procs :
        /\ pc[p] = "imported" /\ lastImport.proc = p
        /\ lastImport.route = "remote"
        /\ lastImport.raised = "RemoteUnreachableError"
        /\ lastImport.from = "ready" /\ UrlResolved(url[p])
        /\ envFile # startFile[p]

CreatePcs == {"create_ns", "create_sa", "create_role", "create_rb"}

\* C13 (as claimed): with two processes running the bootstrap at the same
\* time, no bootstrap ends with the 409 of a create whose object the other
\* process created after this process's check.
C13_CreateToleratesExists ==
    \A p \in procs :
        ~(/\ pc[p] = "failed"
          /\ err[p].at \in CreatePcs
          /\ err[p].status = Conflict)

\* C14 (as claimed): at every point of configure_pod_manager_url, also where
\* the process has stopped, the keys and values the .env file holds are those
\* it held when the activation began or those of the complete new content.
C14_AtomicRewrite ==
    \A p \in procs :
        LET old == ReadVars(startFile[p]).vars
            new == UpdateUrl(old, PodManagerUrl(url[p]))
            now == ReadVars(envFile)
        IN /\ now.ok
           /\ \/ now.vars = old
              \/ UrlResolved(url[p]) /\ now.vars = new

\* the step of the activation a logged call belongs to: 1 namespace,
\* 2 service account, 3 role, 4 role binding, 5 manifest apply, 6 endpoint
StepOfPc(where) ==
    CASE where \in {"list_ns", "create_ns"} -> 1
      [] where \in {"read_sa", "create_sa"} -> 2
      [] where \in {"read_role", "create_role"} -> 3
      [] where \in {"read_rb", "create_rb"} -> 4
      [] where = "apply_yaml" -> 5
      [] OTHER -> 6

StepOf(c) ==
    CASE c.op = "config" -> StepOfPc(c.name)
      [] c.op = "apply" -> 5
      [] c.kind = "Namespace" -> 1
      [] c.kind = "ServiceAccount" -> 2
      [] c.kind = "Role" -> 3
      [] c.kind = "RoleBinding" -> 4
      [] c.op = "create" /\ c.kind \in ManifestKinds -> 5
      [] OTHER -> 6

\* the call made its method raise
Raised(c) ==
    \/ c.op \in {"config", "apply"}
    \/ c.op = "list" /\ c.status # 200
    \/ c.op = "read" /\ c.kind \in ReadCreateKinds /\ c.status \notin {200, NotFound}
    \/ c.op = "create" /\ c.kind \in BootKinds /\ c.status # 200
    \/ c.op = "create" /\ c.kind \in ManifestKinds /\ c.status \notin {200, Conflict}

\* C15: the calls of an activation come in the order namespace, service
\* account, role, role binding, manifest, service read; the activation never
\* stands at a step earlier than a call it has made; the manifest is applied
\* only after the namespace was listed and the service account, the role and
\* the role binding were each read or created with success; the .env file is
\* touched only after the service was read; and after a call that made its
\* step raise, no call of a later step follows, the activation has failed and
\* the .env file is as it was.
C15_ActivationOrder ==
    \A p \in procs :
        LET l == log[p]
            n == Len(l)
        IN /\ \A i, j \in 1..n : i < j => StepOf(l[i]) <= StepOf(l[j])
           /\ pc[p] \notin {"loaded", "failed"} =>
                \A i \in 1..n : StepOf(l[i]) <= StepOfPc(pc[p])
           /\ (pc[p] = "apply_yaml" \/ \E j \in 1..n : StepOf(l[j]) = 5) =>
                /\ \E i \in 1..n : l[i].op = "list" /\ l[i].status = 200
                /\ \A k \in ReadCreateKinds :
                     \E i \in 1..n :
                        /\ l[i].kind = k /\ l[i].status = 200
                        /\ \A j \in 1..n : StepOf(l[j]) = 5 => i < j
           /\ (pc[p] \in {"read_env", "write_env"}
               \/ (pc[p] # "loaded" /\ envFile # startFile[p])) =>
                /\ n > 0
                /\ l[n].op = "read" /\ l[n].kind = "Service" /\ l[n].status = 200
                /\ \E j \in 1..n : l[j].kind = "Service" /\ l[j].op = "create"
           /\ \A i \in 1..n : Raised(l[i]) =>
                /\ pc[p] = "failed"
                /\ err[p].at # "none" /\ StepOfPc(err[p].at) = StepOf(l[i])
                /\ \A j \in 1..n : StepOf(l[j]) <= StepOf(l[i])
                /\ envFile = startFile[p]

\* an activation that created the namespace went through every step and
\* wrote the endpoint
C15_Witness ==
    \E p \in procs :
        /\ pc[p] = "ready" /\ UrlResolved(url[p])
        /\ envFile # startFile[p]
        /\ \E i \in 1..Len(log[p]) :
             log[p][i].op = "create" /\ log[p][i].kind = "Namespace"
        /\ {StepOf(log[p][i]) : i \in 1..Len(log[p])} = 1..6

\* C16: no step of the activation removes or changes a namespace, service
\* account, role or role binding that exists, whatever its rules; such an
\* object appears only by a create call of the bootstrap that was answered
\* with success, issued from the create step of its kind (reached only after
\* the check found it absent), and no object of that kind and name existed.
C16_BootstrapOnlyCreates ==
    [][/\ \A o \in BootObjects(cluster) : o \in cluster'
       /\ \A o \in BootObjects(cluster') \ cluster :
            /\ ~Exists(cluster, o.kind, o.namespace, o.name)
            /\ \E p \in procs :
                 /\ pc[p] \in CreatePcs
                 /\ StepOfPc(pc[p]) = StepOf(Call("create", o.kind, o.namespace, o.name, 200, 200))
                 /\ log'[p] = Append(log[p],
                                     Call("create", o.kind, o.namespace, o.name, 200, 200))]_vars

\* a bootstrap finished on a cluster whose role had other rules, after it
\* created the role binding: the role is still the one it found
C16_Witness ==
    \E p \in procs :
        /\ bootOut # None
        /\ Obj("Role", Namespace, RoleName, DivergentRules) \in cluster
        /\ \E i \in 1..Len(log[p]) :
             /\ log[p][i].op = "read" /\ log[p][i].kind = "Role" /\ log[p][i].status = 200
        /\ \E i \in 1..Len(log[p]) :
             /\ log[p][i].op = "create" /\ log[p][i].kind = "RoleBinding"
             /\ log[p][i].status = 200

UrlOf(file) ==
    LET keyed == SelectSeq(file.lines, LAMBDA ln : FirstEq(PyStrip(ln, Whitespace)) # 0)
        d == ParseEnv(keyed, <<>>).vars
    IN IF DictHas(d, UrlKey) THEN Some(DictGet(d, UrlKey)) ELSE None

\* the first entry of the ingress list the activation read has no address
NoAddress(p) ==
    /\ sawIngress[p] # None
    /\ Len(sawIngress[p][1]) > 0
    /\ ~Truthy(sawIngress[p][1][1].ip)
    /\ ~Truthy(sawIngress[p][1][1].hostname)

\* C18: whenever the POD_MANAGER_URL of the .env file changes, the new value
\* is http://<a>:8000 with <a> the non-empty IP or hostname of the first
\* ingress entry the writing activation read (so the value is always the one
\* from before the first activation or such a value); and an activation that
\* read a first entry with neither IP nor hostname ends without writing.
C18_EndpointWellFormed ==
    /\ [][UrlOf(envFile') # UrlOf(envFile) =>
            \E p \in procs :
                /\ sawIngress[p] # None
                /\ Len(sawIngress[p][1]) > 0
                /\ \E a \in {sawIngress[p][1][1].ip, sawIngress[p][1][1].hostname} :
                     /\ a \notin {NONE, ""}
                     /\ UrlOf(envFile') = Some(<<"http://", a, ":8000">>)]_vars
    /\ [](\A p \in procs :
            NoAddress(p) => pc[p] = "ready" /\ err[p] = NoErr /\ envFile = startFile[p])

\* a second activation replaced the address the first had written by the
\* hostname the service reported then
C18_Witness ==
    \E p \in procs :
        /\ pc[p] = "ready"
        /\ UrlOf(startFile[p]) = Some(<<"http://", "10.0.0.1", ":8000">>)
        /\ UrlOf(envFile) = Some(<<"http://", "lb.example.com", ":8000">>)

====
